---------------------------- MODULE Spec2Model ----------------------------
(***************************************************************************)
(* Model of the orientation code of the laser rangefinder controller:      *)
(* devices/Accelerometer.py (class Accelerometer) and the callers of it in *)
(* __main__.py (get_accelerometer_orientation, show_orientation_data).     *)
(*                                                                         *)
(* Numbers.  The program computes in IEEE doubles through numpy.  The      *)
(* model computes in fixed point: a real v is the integer v * Scale,       *)
(* every operation truncates toward zero, and the one non-number the code  *)
(* can produce, numpy's nan, is the value NaN.  numpy never raises on an   *)
(* invalid operation: it returns nan and emits a RuntimeWarning, which the *)
(* model records in np_warnings.                                           *)
(***************************************************************************)
EXTENDS Integers, Sequences, FiniteSets, TLC

\* ------------------------------------------------------------------ bounds
\* Accelerometer readings are whole multiples of 1 g with components in
\* -MaxAcc..MaxAcc.
MaxAcc == 3
\* main handles key 2 while laser_data.json has fewer than MaxLog lines.
MaxLog == 2

\* ------------------------------------------------------ program constants
\* waitfor sleeps 0.2 s between two polls: five sleeps to the second.
SleepsPerSecond == 5
\* The timeout bosch_usb_drive_off gives waitfor, in seconds.
UmountTimeout == 15

\* ------------------------------------------------------- fixed-point reals
\* Resolution of the fixed-point rendering of a float: 1.0 is Scale.
Scale == 1000
\* Extra decimal digit carried inside the series of the library functions.
Guard == 10
\* np.pi / 2, np.pi and 2 * np.pi at this resolution.
HalfPi == 1571
Pi == 2 * HalfPi
TwoPi == 2 * Pi
\* numpy's nan (any value outside the range of the numbers of the model).
NaN == -1000000000

IsNaN(x) == x = NaN

Abs(x) == IF x < 0 THEN -x ELSE x

\* Quotient truncated toward zero, b > 0.
TDiv(a, b) == IF a >= 0 THEN a \div b ELSE -((-a) \div b)

RECURSIVE SqrtSearch(_, _, _)
SqrtSearch(n, lo, hi) ==
    IF lo >= hi THEN lo
    ELSE LET mid == (lo + hi + 1) \div 2
         IN  IF mid * mid <= n THEN SqrtSearch(n, mid, hi)
                               ELSE SqrtSearch(n, lo, mid - 1)

\* Largest r with r * r <= n, n >= 0.
ISqrt(n) == SqrtSearch(n, 0, IF n < 46340 THEN n ELSE 46340)

\* float arithmetic: nan in, nan out.
FNeg(a) == IF IsNaN(a) THEN NaN ELSE -a
FAdd(a, b) == IF IsNaN(a) \/ IsNaN(b) THEN NaN ELSE a + b
FSub(a, b) == IF IsNaN(a) \/ IsNaN(b) THEN NaN ELSE a - b
FMul(a, b) == IF IsNaN(a) \/ IsNaN(b) THEN NaN ELSE TDiv(a * b, Scale)

\* a / b as numpy divides float64 scalars: 0 / 0 is nan (RuntimeWarning
\* "invalid value"), no exception.  A nonzero a over b = 0 would be inf; the
\* only zero divisor of the program is norm, and norm = 0 only when every
\* numerator is 0 too.
FDiv(a, b) ==
    IF IsNaN(a) \/ IsNaN(b) THEN NaN
    ELSE IF b = 0 THEN NaN
    ELSE IF b > 0 THEN TDiv(a * Scale, b)
    ELSE -TDiv(a * Scale, -b)

\* np.sqrt of a non-negative number.
FSqrt(a) == IF IsNaN(a) THEN NaN ELSE ISqrt(a * Scale)

\* ------------------------------------------------- numpy library functions
\* sin and cos by their Taylor series on [-pi/2, pi/2], carried at
\* Scale * Guard and truncated to Scale.
RECURSIVE SinTerms(_, _, _)
SinTerms(t, x2, k) ==
    IF k > 6 THEN 0
    ELSE LET nt == -TDiv(t * x2, Scale * Guard * (2 * k) * (2 * k + 1))
         IN  nt + SinTerms(nt, x2, k + 1)

SinSeries(x) == x + SinTerms(x, TDiv(x * x, Scale * Guard), 1)

RECURSIVE CosTerms(_, _, _)
CosTerms(t, x2, k) ==
    IF k > 6 THEN 0
    ELSE LET nt == -TDiv(t * x2, Scale * Guard * (2 * k - 1) * (2 * k))
         IN  nt + CosTerms(nt, x2, k + 1)

CosSeries(x) == Scale * Guard + CosTerms(Scale * Guard, TDiv(x * x, Scale * Guard), 1)

SinTable == [a \in -HalfPi..HalfPi |-> TDiv(SinSeries(a * Guard), Guard)]

\* In doubles cos is strictly positive on [-pi/2, pi/2]: np.cos(np.pi / 2)
\* is 6.1e-17, not 0.  The model keeps that: where the truncated value would
\* be 0 or below, cos is the smallest positive number.
CosTable ==
    [a \in -HalfPi..HalfPi |->
        LET c == TDiv(CosSeries(a * Guard), Guard) IN IF c > 0 THEN c ELSE 1]

\* np.sin, np.cos: applied by the program to pitch and roll only, which are
\* arcsines and so lie in [-pi/2, pi/2] or are nan.
Sin(a) == IF IsNaN(a) THEN NaN ELSE SinTable[a]
Cos(a) == IF IsNaN(a) THEN NaN ELSE CosTable[a]

\* arctan on [0, 1]: halve the angle, atan t = 2 atan(t / (1 + sqrt(1 + t^2))),
\* then the alternating series.
RECURSIVE AtanTerms(_, _, _)
AtanTerms(t, u2, k) ==
    IF k > 8 THEN 0
    ELSE LET nt == -TDiv(t * u2, Scale * Guard)
         IN  TDiv(nt, 2 * k + 1) + AtanTerms(nt, u2, k + 1)

AtanSeries(u) == u + AtanTerms(u, TDiv(u * u, Scale * Guard), 1)

AtanTable ==
    [t \in 0..Scale |->
        LET I  == Scale * Guard
            ti == t * Guard
            h  == ISqrt(I * I + ti * ti)
            u  == TDiv(ti * I, I + h)
        IN  TDiv(2 * AtanSeries(u), Guard)]

\* np.arctan2(y, x), in (-pi, pi]; arctan2(0, 0) = 0.
Arctan2(y, x) ==
    IF IsNaN(y) \/ IsNaN(x) THEN NaN
    ELSE IF x = 0 /\ y = 0 THEN 0
    ELSE LET ay == Abs(y)
             ax == Abs(x)
             a  == IF ay <= ax THEN AtanTable[TDiv(ay * Scale, ax)]
                               ELSE HalfPi - AtanTable[TDiv(ax * Scale, ay)]
             b  == IF x < 0 THEN Pi - a ELSE a
         IN  IF y >= 0 THEN b ELSE -b

ArcsinTable ==
    [y \in -Scale..Scale |-> Arctan2(y, ISqrt(Scale * Scale - y * y))]

\* np.arcsin: nan (with a RuntimeWarning) outside [-1, 1], no exception.
Arcsin(y) ==
    IF IsNaN(y) THEN NaN
    ELSE IF y > Scale \/ y < -Scale THEN NaN
    ELSE ArcsinTable[y]

\* x % (2 * np.pi): the result has the sign of the divisor; nan stays nan.
Mod2Pi(x) == IF IsNaN(x) THEN NaN ELSE x % TwoPi

\* np.rad2deg(x) = x * 180 / pi.
Rad2Deg(x) == IF IsNaN(x) THEN NaN ELSE TDiv(x * 180 * Scale, Pi)

\* "%.2f" % x: two decimals, nan prints as nan.
Fmt2(x) ==
    IF IsNaN(x) THEN NaN
    ELSE IF x >= 0 THEN ((x + 5) \div 10) * 10
    ELSE -(((-x) + 5) \div 10) * 10


\* ------------------------------------------------------------------ inputs
\* What LSM303D.accelerometer() and LSM303D.magnetometer() can return.  The
\* magnetometer components are -1, 0 or 1 gauss: the 27 directions of the
\* field along the axes, the face diagonals and the space diagonals.
AccVals == {i * Scale : i \in -MaxAcc..MaxAcc}
MagVals == {-Scale, 0, Scale}
AccVecs == {<<x, y, z>> : x \in AccVals, y \in AccVals, z \in AccVals}
MagVecs == {<<x, y, z>> : x \in MagVals, y \in MagVals, z \in MagVals}

\* The readings one unit away from v in one component, and v itself.
Near(v, vals) ==
    {v} \cup UNION {{[v EXCEPT ![i] = w] :
                          w \in {v[i] - Scale, v[i] + Scale} \cap vals} : i \in 1..3}

\* The pairs of readings one Update can get after the readings (acc, mag) of
\* the Update before it.  The device returns any reading at all the first
\* time; between two consecutive Updates the model lets one sensor move by
\* one unit in one component, which keeps every pair of readings reachable.
NextReadings(acc, mag) ==
    {<<a, mag>> : a \in Near(acc, AccVals)}
        \cup {<<acc, m>> : m \in Near(mag, MagVals)}

\* ------------------------------------------------------------------- state
VARIABLES
    accelerometer,  \* the Accelerometer object: its fields
    last_op,        \* the operation that ran last ("new": fields just set)
    sensor_reads,   \* the device reads the last operation made, in order
    printed,        \* the angles the last operation printed, in degrees
    np_warnings,    \* the RuntimeWarnings numpy emitted in the last operation
    raised          \* the exception the last operation raised to its caller

\* The accelerometer object and what its last operation did.
accVars == <<accelerometer, last_op, sensor_reads, printed, np_warnings, raised>>

\* One Update followed statement by statement.
VARIABLES
    upd_pc,         \* 0: no Update running; i: the i-th call of Update is next
    upd_calls,      \* the methods the running (or last) Update has called
    upd_reads,      \* the device reads it has made: <<sensor, reading>>
    seen            \* what the last reader of the object read from it

updVars == <<upd_pc, upd_calls, upd_reads, seen>>

\* main: the relay, the drive of the Bosch, the umount process, the log.
VARIABLES
    pc,             \* where main is
    relay,          \* the Relay object: logical value and level of the pin
    relay_calls,    \* the last two calls made on the relay
    mounted,        \* the mount path of the drive exists
    proc,           \* the process waitfor started: status, sleep count at
                    \* its exit, whether SIGKILL was sent to it
    elapsed,        \* sleeps of 0.2 s since waitfor took its start time
    wf_result,      \* what the last waitfor returned
    key,            \* the key main is handling; 0 before the loop
    on_ret,         \* what the last bosch_usb_drive_on returned, and whether
                    \* the mount path existed when it returned
    rotary,         \* the Rotary object: value and direction
    bosch_data,     \* what the last get_bosch_data returned
    log,            \* the lines of laser_data.json
    records         \* the key-2 events whose get_bosch_data returned a record

mainVars == <<pc, relay, relay_calls, mounted, proc, elapsed, wf_result,
              key, on_ret, rotary, bosch_data, log, records>>

\* The Config object and the file system check_config looks at.
VARIABLES
    config,         \* the Config object: its fields
    cfg_arg,        \* the argument of the last Config.load
    cfg_op,         \* the Config method that ran last
    cfg_raised,     \* the exception it raised
    fs              \* the paths that exist

cfgVars == <<config, cfg_arg, cfg_op, cfg_raised, fs>>

vars == <<accVars, updVars, mainVars, cfgVars>>

\* ------------------------------------------------------ class Accelerometer
\* __init__, the fields as assigned before the first GetCalcReport.
NewAccelerometer ==
    [xyz_acc |-> <<0, 0, 0>>, xyz_mag |-> <<0, 0, 0>>, heading |-> 0,
     norm_heading |-> 0, pitch |-> 0, roll |-> 0, norm |-> 0]

getAccel(self, reading) == [self EXCEPT !.xyz_acc = reading]

getMagnet(self, reading) == [self EXCEPT !.xyz_mag = reading]

\* calcHeading with the arguments of arctan2 exchanged.
calcHeading_swapped(self) ==
    [self EXCEPT !.heading = Mod2Pi(Arctan2(self.xyz_mag[1], self.xyz_mag[2]))]

calcHeading(self) ==
    [self EXCEPT !.heading = Mod2Pi(Arctan2(self.xyz_mag[2], self.xyz_mag[1]))]

\* calcNormHeading with one statement changed.  stale: np.cos(self.pitch) of
\* the roll line is taken before the pitch line has assigned self.pitch.
\* plus: the last term of magYcomp is added, not subtracted.  unsigned: the
\* roll line drops its minus sign.
calcNormHeadingVariant(self, stale, plus, unsigned) ==
    LET s1 == [self EXCEPT !.norm =
                  FSqrt(FAdd(FAdd(FMul(self.xyz_acc[1], self.xyz_acc[1]),
                                  FMul(self.xyz_acc[2], self.xyz_acc[2])),
                             FMul(self.xyz_acc[3], self.xyz_acc[3])))]
        accXnorm == FDiv(s1.xyz_acc[1], s1.norm)
        accYnorm == FDiv(s1.xyz_acc[2], s1.norm)
        s2 == [s1 EXCEPT !.pitch = Arcsin(accXnorm)]
        cp == IF stale THEN Cos(s1.pitch) ELSE Cos(s2.pitch)
        r  == Arcsin(FDiv(accYnorm, cp))
        s3 == [s2 EXCEPT !.roll = IF unsigned THEN r ELSE FNeg(r)]
        magXcomp == FAdd(FMul(s3.xyz_mag[1], Cos(s3.pitch)),
                         FMul(s3.xyz_mag[3], Sin(s3.pitch)))
        last == FMul(FMul(s3.xyz_mag[3], Sin(s3.roll)), Cos(s3.pitch))
        head == FAdd(FMul(FMul(s3.xyz_mag[1], Sin(s3.roll)), Sin(s3.pitch)),
                     FMul(s3.xyz_mag[2], Cos(s3.roll)))
        magYcomp == IF plus THEN FAdd(head, last) ELSE FSub(head, last)
    IN  [s3 EXCEPT !.norm_heading = Mod2Pi(Arctan2(magYcomp, magXcomp))]

calcNormHeading_stale(self) == calcNormHeadingVariant(self, TRUE, FALSE, FALSE)
calcNormHeading_plus(self) == calcNormHeadingVariant(self, FALSE, TRUE, FALSE)
calcNormHeading_unsigned(self) == calcNormHeadingVariant(self, FALSE, FALSE, TRUE)

\* The statements of calcNormHeading in order; each reads the fields as the
\* statements before it left them.
calcNormHeading(self) ==
    LET s1 == [self EXCEPT !.norm =
                  FSqrt(FAdd(FAdd(FMul(self.xyz_acc[1], self.xyz_acc[1]),
                                  FMul(self.xyz_acc[2], self.xyz_acc[2])),
                             FMul(self.xyz_acc[3], self.xyz_acc[3])))]
        accXnorm == FDiv(s1.xyz_acc[1], s1.norm)
        accYnorm == FDiv(s1.xyz_acc[2], s1.norm)
        s2 == [s1 EXCEPT !.pitch = Arcsin(accXnorm)]
        s3 == [s2 EXCEPT !.roll = FNeg(Arcsin(FDiv(accYnorm, Cos(s2.pitch))))]
        magXcomp == FAdd(FMul(s3.xyz_mag[1], Cos(s3.pitch)),
                         FMul(s3.xyz_mag[3], Sin(s3.pitch)))
        magYcomp == FSub(FAdd(FMul(FMul(s3.xyz_mag[1], Sin(s3.roll)), Sin(s3.pitch)),
                              FMul(s3.xyz_mag[2], Cos(s3.roll))),
                         FMul(FMul(s3.xyz_mag[3], Sin(s3.roll)), Cos(s3.pitch)))
    IN  [s3 EXCEPT !.norm_heading = Mod2Pi(Arctan2(magYcomp, magXcomp))]

\* Update: the four calls in order; acc and mag are what the device returns.
Update(self, acc, mag) ==
    calcNormHeading(calcHeading(getMagnet(getAccel(self, acc), mag)))

\* The RuntimeWarnings of one calcNormHeading: "divide" for the 0 / 0 of a
\* zero norm, "arcsin" for an arcsine argument outside [-1, 1].  A nan
\* argument passes through numpy silently.
Warnings(self) ==
    LET accXnorm == FDiv(self.xyz_acc[1], self.norm)
        accYnorm == FDiv(self.xyz_acc[2], self.norm)
        ratio    == FDiv(accYnorm, Cos(Arcsin(accXnorm)))
    IN  (IF self.norm = 0 THEN {"divide"} ELSE {})
        \cup (IF ~IsNaN(ratio) /\ (ratio > Scale \/ ratio < -Scale)
              THEN {"arcsin"} ELSE {})

\* The line GetCalcReport prints: pitch, roll, heading with "%.2f".
CalcReport(self) ==
    <<Fmt2(Rad2Deg(self.pitch)), Fmt2(Rad2Deg(self.roll)),
      Fmt2(Rad2Deg(self.norm_heading))>>

\* The accelerometer lines show_orientation_data prints: heading, pitch, roll.
OrientationData(self) ==
    <<Rad2Deg(self.norm_heading), Rad2Deg(self.pitch), Rad2Deg(self.roll)>>

\* ---------------------------------------------------------- class Relay
\* gpiozero's LED(pin, active_high, initial_value): the device keeps the
\* level of the pin; its value is 1 when the pin is at the active level.
PinLevel(active_high, on) ==
    IF active_high THEN (IF on THEN 1 ELSE 0) ELSE (IF on THEN 0 ELSE 1)

LED(active_high, initial_value) ==
    [active_high |-> active_high, pin |-> PinLevel(active_high, initial_value)]

LED_value(led) == IF led.pin = PinLevel(led.active_high, TRUE) THEN 1 ELSE 0

\* Relay.__init__ with an active-high LED.
NewRelay_active_high == LED(TRUE, FALSE)

\* Relay.__init__: LED(pin, active_high=False, initial_value=False).
NewRelay == LED(FALSE, FALSE)

Relay_on(self) == [self EXCEPT !.pin = PinLevel(self.active_high, TRUE)]

Relay_off(self) == [self EXCEPT !.pin = PinLevel(self.active_high, FALSE)]

\* The last two calls made on the relay, after one more.
Called(calls, c) == IF Len(calls) < 2 THEN Append(calls, c) ELSE <<calls[2], c>>

\* --------------------------------------------------------- class Rotary
NewRotary == [value |-> 0, direction |-> "0"]

\* ---------------------------------------------------------- class Config
\* A string is the sequence of its characters.  None is not a string: it is
\* the one sequence whose element is no character.
None == <<"None">>

\* The truth value Python gives a string or None.
Truthy(x) == x # None /\ x # <<>>

\* str.rstrip("/"): the string without its trailing slashes.
RECURSIVE RStrip(_)
RStrip(str) ==
    IF str # <<>> /\ str[Len(str)] = "/"
    THEN RStrip(SubSeq(str, 1, Len(str) - 1))
    ELSE str

\* Config.__init__: the default values.
NewConfig ==
    [LogDir |-> <<"/", "h", "o", "m", "e", "/", "j", "l", "o", "v", "e", "l",
                  "l", "/", "L", "o", "g", "s">>,
     accel_addr |-> <<"0", "x", "1", "D">>,
     GPS_port |-> <<"/", "d", "e", "v", "/", "t", "t", "y", "S", "0">>,
     GPS_baudrate |-> 9600,
     Relay_GPIO_pin |-> 1,
     Encoder_GPIO_left_pin |-> 12,
     Encoder_GPIO_right_pin |-> 23]

\* ------------------------------------------------------- initial values
\* Before the first Popen, bosch_usb_drive_on and get_bosch_data.
NoProcess == [status |-> "none", exit_at |-> 0, signalled |-> FALSE]
NotReturned == [value |-> "none", exists |-> FALSE]
NoData == [kind |-> "none"]

\* No Update is running and nobody has read the object.
UpdInit ==
    /\ upd_pc = 0
    /\ upd_calls = <<>>
    /\ upd_reads = <<>>
    /\ seen = <<>>

\* main after its constructors and before its first bosch_usb_drive_off.
\* The drive is mounted or not, as the run before left it.
MainStart(drive) ==
    /\ pc = "start"
    /\ relay = NewRelay
    /\ relay_calls = <<"init">>
    /\ mounted = drive
    /\ proc = NoProcess
    /\ elapsed = 0
    /\ wf_result = "none"
    /\ key = 0
    /\ on_ret = NotReturned
    /\ rotary = NewRotary
    /\ bosch_data = NoData
    /\ log = <<>>
    /\ records = 0

\* config = Config(), on a file system where the paths of files exist.
CfgStart(files) ==
    /\ config = NewConfig
    /\ cfg_arg = [kind |-> "none", LogDir |-> None, AccelAddr |-> None,
                  GPSPort |-> None]
    /\ cfg_op = "new"
    /\ cfg_raised = "None"
    /\ fs = files

\* ----------------------------------------------------------------- actions
Init ==
    /\ accelerometer = NewAccelerometer
    /\ last_op = "new"
    /\ sensor_reads = <<>>
    /\ printed = <<>>
    /\ np_warnings = {}
    /\ raised = "None"
    /\ UpdInit
    /\ MainStart(FALSE)
    /\ CfgStart({})

\* GetCalcReport, called once, at the end of __init__: Update, then print.
GetCalcReport ==
    /\ last_op = "new"
    /\ \E acc \in AccVecs, mag \in MagVecs :
          /\ accelerometer' = Update(accelerometer, acc, mag)
          /\ sensor_reads' = <<"accelerometer", "magnetometer">>
    /\ np_warnings' = Warnings(accelerometer')
    /\ printed' = CalcReport(accelerometer')
    /\ raised' = "None"
    /\ last_op' = "GetCalcReport"
    /\ UNCHANGED <<updVars, mainVars, cfgVars>>

\* get_accelerometer_orientation(accelerometer): accelerometer.Update().
get_accelerometer_orientation ==
    /\ last_op # "new"
    /\ \E r \in NextReadings(accelerometer.xyz_acc, accelerometer.xyz_mag) :
          /\ accelerometer' = Update(accelerometer, r[1], r[2])
          /\ sensor_reads' = <<"accelerometer", "magnetometer">>
    /\ np_warnings' = Warnings(accelerometer')
    /\ printed' = <<>>
    /\ raised' = "None"
    /\ last_op' = "get_accelerometer_orientation"
    /\ UNCHANGED <<updVars, mainVars, cfgVars>>

\* show_orientation_data that refreshes the angles before printing them,
\* as GetCalcReport does.
show_orientation_data_refreshing ==
    /\ last_op # "new"
    /\ \E r \in NextReadings(accelerometer.xyz_acc, accelerometer.xyz_mag) :
          /\ accelerometer' = Update(accelerometer, r[1], r[2])
          /\ sensor_reads' = <<"accelerometer", "magnetometer">>
    /\ printed' = OrientationData(accelerometer')
    /\ np_warnings' = Warnings(accelerometer')
    /\ raised' = "None"
    /\ last_op' = "show_orientation_data"
    /\ UNCHANGED <<updVars, mainVars, cfgVars>>

\* show_orientation_data(rotary, accelerometer): prints the stored angles.
show_orientation_data ==
    /\ last_op # "new"
    /\ printed' = OrientationData(accelerometer)
    /\ sensor_reads' = <<>>
    /\ np_warnings' = {}
    /\ raised' = "None"
    /\ last_op' = "show_orientation_data"
    /\ UNCHANGED accelerometer
    /\ UNCHANGED <<updVars, mainVars, cfgVars>>

Next ==
    \/ GetCalcReport
    \/ get_accelerometer_orientation
    \/ show_orientation_data

Spec == Init /\ [][Next]_vars

\* ------------------------------------------------------------- vocabulary
\* The last operation ran Update, so the fields come from a computation.
Updated == last_op \in {"GetCalcReport", "get_accelerometer_orientation"}

\* The stored fields an Update computes.
Attitude(self) ==
    <<self.pitch, self.roll, self.heading, self.norm_heading, self.norm>>

InTwoPi(x) == ~IsNaN(x) /\ 0 <= x /\ x < TwoPi
InQuarter(x) == ~IsNaN(x) /\ -HalfPi <= x /\ x <= HalfPi

TypeOK ==
    /\ accelerometer.xyz_acc \in AccVecs \cup {<<0, 0, 0>>}
    /\ accelerometer.xyz_mag \in MagVecs \cup {<<0, 0, 0>>}
    /\ last_op \in {"new", "GetCalcReport", "get_accelerometer_orientation",
                    "show_orientation_data"}

\* The normalized accelerometer components of the stored sample.
NormX == FDiv(accelerometer.xyz_acc[1], accelerometer.norm)
NormY == FDiv(accelerometer.xyz_acc[2], accelerometer.norm)

ZeroVec == <<0, 0, 0>>

\* ------------------------------------------------- Update, step by step
\* Update with calcHeading called before the magnetometer is read.
UpdatePipeline_heading_first ==
    <<"getAccel", "calcHeading", "getMagnet", "calcNormHeading">>

\* The calls of the body of Update, in its order.
UpdatePipeline == <<"getAccel", "getMagnet", "calcHeading", "calcNormHeading">>

\* What a sensor returns when the object holds the reading v of it: any
\* direction the first time, and afterwards a reading within one unit.
StepReadings(v) == IF v = ZeroVec THEN MagVecs ELSE Near(v, MagVals)

\* The statement of Update that runs next, and the position after it.
UpdateAt(method) == upd_pc \in 1..4 /\ UpdatePipeline[upd_pc] = method

UpdateAdvance(method) ==
    /\ upd_pc' = IF upd_pc = 4 THEN 0 ELSE upd_pc + 1
    /\ upd_calls' = Append(upd_calls, method)

\* Update is entered: from GetCalcReport in __init__, and afterwards from
\* get_accelerometer_orientation.
Update_enter ==
    /\ upd_pc = 0
    /\ upd_pc' = 1
    /\ upd_calls' = <<>>
    /\ upd_reads' = <<>>
    /\ seen' = <<>>
    /\ UNCHANGED <<accVars, mainVars, cfgVars>>

Update_getAccel ==
    /\ UpdateAt("getAccel")
    /\ \E reading \in StepReadings(accelerometer.xyz_acc) :
          /\ accelerometer' = getAccel(accelerometer, reading)
          /\ upd_reads' = Append(upd_reads, <<"accelerometer", reading>>)
    /\ UpdateAdvance("getAccel")
    /\ UNCHANGED <<last_op, sensor_reads, printed, np_warnings, raised, seen,
                   mainVars, cfgVars>>

Update_getMagnet ==
    /\ UpdateAt("getMagnet")
    /\ \E reading \in StepReadings(accelerometer.xyz_mag) :
          /\ accelerometer' = getMagnet(accelerometer, reading)
          /\ upd_reads' = Append(upd_reads, <<"magnetometer", reading>>)
    /\ UpdateAdvance("getMagnet")
    /\ UNCHANGED <<last_op, sensor_reads, printed, np_warnings, raised, seen,
                   mainVars, cfgVars>>

Update_calcHeading ==
    /\ UpdateAt("calcHeading")
    /\ accelerometer' = calcHeading(accelerometer)
    /\ UpdateAdvance("calcHeading")
    /\ UNCHANGED <<last_op, sensor_reads, printed, np_warnings, raised,
                   upd_reads, seen, mainVars, cfgVars>>

Update_calcNormHeading ==
    /\ UpdateAt("calcNormHeading")
    /\ accelerometer' = calcNormHeading(accelerometer)
    /\ UpdateAdvance("calcNormHeading")
    /\ UNCHANGED <<last_op, sensor_reads, printed, np_warnings, raised,
                   upd_reads, seen, mainVars, cfgVars>>

\* What a reader of the object gets: the attitude and the stored vectors.
Snapshot(self) ==
    [attitude |-> Attitude(self), acc |-> self.xyz_acc, mag |-> self.xyz_mag]

\* A reader that runs whatever Update is doing, as a second thread would.
read_orientation_any_time ==
    /\ upd_calls # <<>>
    /\ seen' = Snapshot(accelerometer)
    /\ UNCHANGED <<accVars, upd_pc, upd_calls, upd_reads, mainVars, cfgVars>>

\* The readers of main, show_orientation_data and write_data_to_json: main
\* calls them in its one thread, after the constructor or
\* get_accelerometer_orientation has returned.
read_orientation ==
    /\ upd_pc = 0
    /\ upd_calls # <<>>
    /\ seen' = Snapshot(accelerometer)
    /\ UNCHANGED <<accVars, upd_pc, upd_calls, upd_reads, mainVars, cfgVars>>

NextUpdate ==
    \/ Update_enter
    \/ Update_getAccel
    \/ Update_getMagnet
    \/ Update_calcHeading
    \/ Update_calcNormHeading
    \/ read_orientation

SpecUpdate == Init /\ [][NextUpdate]_vars

\* The attitudes a completed Update can leave, and the one of __init__.
CompletedAttitudes ==
    {Attitude(NewAccelerometer)}
        \cup {Attitude(Update(NewAccelerometer, acc, mag)) :
                 acc \in MagVecs, mag \in MagVecs}

\* ------------------------------------------------------------------ main
\* The pairs of readings of the accelerometer in main: level with the field
\* along x, and tilted with the field along y.
MainReadings ==
    {<<(<<0, 0, Scale>>), (<<Scale, 0, 0>>)>>,
     <<(<<Scale, Scale, Scale>>), (<<0, Scale, 0>>)>>}

\* What get_bosch_data returns for a last row of Memory.txt that is an
\* indirect height measurement: time, range, angle, height, image number.
BoschRecords ==
    {[kind |-> "record", time |-> "Date", range |-> 12, angle |-> 30,
      height |-> 6, image_no_str |-> "Image No."]}

\* get_bosch_data returned False.
Rejected == [kind |-> "False"]

\* The line write_data_to_json appends, without its time stamp.
LogLine(rot, acc, data) ==
    [rotary |-> [value |-> rot.value, direction |-> rot.direction],
     accelerometer |-> [heading |-> acc.norm_heading, pitch |-> acc.pitch,
                        roll |-> acc.roll, norm |-> acc.norm],
     bosch |-> data]

\* (now - start).seconds after the sleeps counted: whole seconds.
Seconds(sleeps) == sleeps \div SleepsPerSecond

\* main is at the top of its loop, in wait_for_button.
AtLoopTop == pc = "loop" \/ (pc = "off_returned" /\ key = 0)

\* The constructors of main: Accelerometer.__init__ takes the first sample.
main_setup ==
    /\ pc = "start"
    /\ \E r \in MainReadings :
          accelerometer' = Update(NewAccelerometer, r[1], r[2])
    /\ relay' = NewRelay
    /\ relay_calls' = <<"init">>
    /\ rotary' = NewRotary
    /\ key' = 0
    /\ pc' = "off_check"
    /\ UNCHANGED <<last_op, sensor_reads, printed, np_warnings, raised,
                   mounted, proc, elapsed, wf_result, on_ret, bosch_data, log,
                   records, updVars, cfgVars>>

\* bosch_usb_drive_off when the path does not exist: return False.
bosch_usb_drive_off_absent ==
    /\ pc = "off_check"
    /\ ~mounted
    /\ pc' = "off_returned"
    /\ UNCHANGED <<accVars, relay, relay_calls, mounted, proc, elapsed,
                   wf_result, key, on_ret, rotary, bosch_data, log, records,
                   updVars, cfgVars>>

\* bosch_usb_drive_off when the path exists: waitfor takes its start time
\* and starts umount.
bosch_usb_drive_off_umount ==
    /\ pc = "off_check"
    /\ mounted
    /\ proc' = [status |-> "running", exit_at |-> 0, signalled |-> FALSE]
    /\ elapsed' = 0
    /\ wf_result' = "none"
    /\ pc' = "wf_poll"
    /\ UNCHANGED <<accVars, relay, relay_calls, mounted, key, on_ret, rotary,
                   bosch_data, log, records, updVars, cfgVars>>

\* while process.poll() is None: the process has not exited.
waitfor_poll_running ==
    /\ pc = "wf_poll"
    /\ proc.status = "running"
    /\ pc' = "wf_sleep"
    /\ UNCHANGED <<accVars, relay, relay_calls, mounted, proc, elapsed,
                   wf_result, key, on_ret, rotary, bosch_data, log, records,
                   updVars, cfgVars>>

\* time.sleep(0.2) and the test of the time, not over the timeout.
waitfor_sleep ==
    /\ pc = "wf_sleep"
    /\ ~(Seconds(elapsed + 1) > UmountTimeout)
    /\ elapsed' = elapsed + 1
    /\ pc' = "wf_poll"
    /\ UNCHANGED <<accVars, relay, relay_calls, mounted, proc, wf_result, key,
                   on_ret, rotary, bosch_data, log, records, updVars, cfgVars>>

\* The timeout branch of waitfor without its os.kill.
waitfor_timeout_no_kill ==
    /\ pc = "wf_sleep"
    /\ Seconds(elapsed + 1) > UmountTimeout
    /\ elapsed' = elapsed + 1
    /\ wf_result' = "None"
    /\ pc' = "off_relay"
    /\ UNCHANGED <<accVars, relay, relay_calls, mounted, proc, key, on_ret,
                   rotary, bosch_data, log, records, updVars, cfgVars>>

\* time.sleep(0.2) and the test of the time, over the timeout: SIGKILL,
\* return None.
waitfor_timeout ==
    /\ pc = "wf_sleep"
    /\ Seconds(elapsed + 1) > UmountTimeout
    /\ elapsed' = elapsed + 1
    /\ proc' = [proc EXCEPT !.status = "killed", !.signalled = TRUE]
    /\ wf_result' = "None"
    /\ pc' = "off_relay"
    /\ UNCHANGED <<accVars, relay, relay_calls, mounted, key, on_ret, rotary,
                   bosch_data, log, records, updVars, cfgVars>>

\* process.poll() is not None: return process.stdout.readlines().
waitfor_return ==
    /\ pc = "wf_poll"
    /\ proc.status = "exited"
    /\ wf_result' = "lines"
    /\ pc' = "off_relay"
    /\ UNCHANGED <<accVars, relay, relay_calls, mounted, proc, elapsed, key,
                   on_ret, rotary, bosch_data, log, records, updVars, cfgVars>>

\* relay.off() after waitfor, the last statement of bosch_usb_drive_off.
\* The result and the clock of waitfor are dropped with its frame.
bosch_usb_drive_off_relay ==
    /\ pc = "off_relay"
    /\ relay' = Relay_off(relay)
    /\ relay_calls' = Called(relay_calls, "off")
    /\ proc' = [proc EXCEPT !.exit_at = 0]
    /\ elapsed' = 0
    /\ wf_result' = "none"
    /\ pc' = "off_returned"
    /\ UNCHANGED <<accVars, mounted, key, on_ret, rotary, bosch_data, log,
                   records, updVars, cfgVars>>

\* key 1: bosch_usb_drive_off first.
key_1 ==
    /\ AtLoopTop
    /\ key' = 1
    /\ pc' = "off_check"
    /\ UNCHANGED <<accVars, relay, relay_calls, mounted, proc, elapsed,
                   wf_result, on_ret, rotary, bosch_data, log, records,
                   updVars, cfgVars>>

\* key 2: bosch_usb_drive_on first.
key_2 ==
    /\ AtLoopTop
    /\ Len(log) < MaxLog
    /\ key' = 2
    /\ pc' = "on_start"
    /\ UNCHANGED <<accVars, relay, relay_calls, mounted, proc, elapsed,
                   wf_result, on_ret, rotary, bosch_data, log, records,
                   updVars, cfgVars>>

\* Any other key: show_status.
key_3 ==
    /\ AtLoopTop
    /\ key' = 3
    /\ pc' = "loop"
    /\ UNCHANGED <<accVars, relay, relay_calls, mounted, proc, elapsed,
                   wf_result, on_ret, rotary, bosch_data, log, records,
                   updVars, cfgVars>>

\* The measurement of key 1 that also writes a line of the log.
measure_logging ==
    /\ pc = "off_returned"
    /\ key = 1
    /\ \E r \in MainReadings :
          accelerometer' = Update(accelerometer, r[1], r[2])
    /\ log' = Append(log, LogLine(rotary, accelerometer', NoData))
    /\ pc' = "loop"
    /\ UNCHANGED <<last_op, sensor_reads, printed, np_warnings, raised, relay,
                   relay_calls, mounted, proc, elapsed, wf_result, key, on_ret,
                   rotary, bosch_data, records, updVars, cfgVars>>

\* The rest of key 1: get_rotary, get_accelerometer_orientation,
\* show_orientation_data.
measure ==
    /\ pc = "off_returned"
    /\ key = 1
    /\ \E r \in MainReadings :
          accelerometer' = Update(accelerometer, r[1], r[2])
    /\ pc' = "loop"
    /\ UNCHANGED <<last_op, sensor_reads, printed, np_warnings, raised, relay,
                   relay_calls, mounted, proc, elapsed, wf_result, key, on_ret,
                   rotary, bosch_data, log, records, updVars, cfgVars>>

\* bosch_usb_drive_on: relay.on() and the first sleep of 5 s.
bosch_usb_drive_on_relay ==
    /\ pc = "on_start"
    /\ relay' = Relay_on(relay)
    /\ relay_calls' = Called(relay_calls, "on")
    /\ on_ret' = NotReturned
    /\ pc' = "on_check1"
    /\ UNCHANGED <<accVars, mounted, proc, elapsed, wf_result, key, rotary,
                   bosch_data, log, records, updVars, cfgVars>>

\* The first exists(path): the else branch prints and returns True.
bosch_usb_drive_on_found ==
    /\ pc = "on_check1"
    /\ mounted
    /\ on_ret' = [value |-> "True", exists |-> mounted]
    /\ pc' = "on_returned"
    /\ UNCHANGED <<accVars, relay, relay_calls, mounted, proc, elapsed,
                   wf_result, key, rotary, bosch_data, log, records, updVars,
                   cfgVars>>

\* The first exists(path) fails: the second sleep of 5 s.
bosch_usb_drive_on_wait ==
    /\ pc = "on_check1"
    /\ ~mounted
    /\ pc' = "on_check2"
    /\ UNCHANGED <<accVars, relay, relay_calls, mounted, proc, elapsed,
                   wf_result, key, on_ret, rotary, bosch_data, log, records,
                   updVars, cfgVars>>

\* The second exists(path): return False when it fails; when it succeeds
\* the function ends without a return statement and returns None.
bosch_usb_drive_on_second ==
    /\ pc = "on_check2"
    /\ on_ret' = [value |-> IF mounted THEN "None" ELSE "False",
                  exists |-> mounted]
    /\ pc' = "on_returned"
    /\ UNCHANGED <<accVars, relay, relay_calls, mounted, proc, elapsed,
                   wf_result, key, rotary, bosch_data, log, records, updVars,
                   cfgVars>>

\* get_bosch_data without the drive: open raises FileNotFoundError, which
\* nothing in main catches.
get_bosch_data_missing ==
    /\ pc = "on_returned"
    /\ ~mounted
    /\ on_ret' = NotReturned
    /\ pc' = "raised"
    /\ UNCHANGED <<accVars, relay, relay_calls, mounted, proc, elapsed,
                   wf_result, key, rotary, bosch_data, log, records,
                   updVars, cfgVars>>

\* get_bosch_data returns False: the last row is another function.
get_bosch_data_rejected ==
    /\ pc = "on_returned"
    /\ mounted
    /\ bosch_data' = Rejected
    /\ on_ret' = NotReturned
    /\ pc' = "loop"
    /\ UNCHANGED <<accVars, relay, relay_calls, mounted, proc, elapsed,
                   wf_result, key, rotary, log, records, updVars,
                   cfgVars>>

\* get_bosch_data returns a record.
get_bosch_data_record ==
    /\ pc = "on_returned"
    /\ mounted
    /\ \E data \in BoschRecords : bosch_data' = data
    /\ records' = records + 1
    /\ on_ret' = NotReturned
    /\ pc' = "write"
    /\ UNCHANGED <<accVars, relay, relay_calls, mounted, proc, elapsed,
                   wf_result, key, rotary, log, updVars, cfgVars>>

\* if (bosch_data): show_orientation_data, show_bosch_data,
\* write_data_to_json.  The log file can be opened for appending.
write_data_to_json ==
    /\ pc = "write"
    /\ log' = Append(log, LogLine(rotary, accelerometer, bosch_data))
    /\ pc' = "loop"
    /\ UNCHANGED <<accVars, relay, relay_calls, mounted, proc, elapsed,
                   wf_result, key, on_ret, rotary, bosch_data, records,
                   updVars, cfgVars>>

\* The system mounts the drive of the powered Bosch.
drive_appears ==
    /\ pc \notin {"start", "raised"}
    /\ LED_value(relay) = 1
    /\ ~mounted
    /\ mounted' = TRUE
    /\ UNCHANGED <<accVars, pc, relay, relay_calls, proc, elapsed, wf_result,
                   key, on_ret, rotary, bosch_data, log, records, updVars,
                   cfgVars>>

\* The mount path goes away: the Bosch is unplugged or switches itself off.
drive_disappears ==
    /\ pc \notin {"start", "raised"}
    /\ mounted
    /\ mounted' = FALSE
    /\ UNCHANGED <<accVars, pc, relay, relay_calls, proc, elapsed, wf_result,
                   key, on_ret, rotary, bosch_data, log, records, updVars,
                   cfgVars>>

\* umount exits by itself, having removed the mount path or not.
umount_exits ==
    /\ pc = "wf_poll"
    /\ proc.status = "running"
    /\ proc' = [proc EXCEPT !.status = "exited", !.exit_at = elapsed]
    /\ \E path \in {mounted, FALSE} : mounted' = path
    /\ UNCHANGED <<accVars, pc, relay, relay_calls, elapsed, wf_result, key,
                   on_ret, rotary, bosch_data, log, records, updVars, cfgVars>>

NextMain ==
    \/ main_setup
    \/ bosch_usb_drive_off_absent
    \/ bosch_usb_drive_off_umount
    \/ waitfor_poll_running
    \/ waitfor_sleep
    \/ waitfor_timeout
    \/ waitfor_return
    \/ bosch_usb_drive_off_relay
    \/ key_1
    \/ key_2
    \/ key_3
    \/ measure
    \/ bosch_usb_drive_on_relay
    \/ bosch_usb_drive_on_found
    \/ bosch_usb_drive_on_wait
    \/ bosch_usb_drive_on_second
    \/ get_bosch_data_missing
    \/ get_bosch_data_rejected
    \/ get_bosch_data_record
    \/ write_data_to_json
    \/ drive_appears
    \/ drive_disappears
    \/ umount_exits

\* main starts with the drive mounted or not, as the run before left it.
InitMain ==
    /\ accelerometer = NewAccelerometer
    /\ last_op = "new"
    /\ sensor_reads = <<>>
    /\ printed = <<>>
    /\ np_warnings = {}
    /\ raised = "None"
    /\ UpdInit
    /\ \E drive \in BOOLEAN : MainStart(drive)
    /\ CfgStart({})

SpecMain == InitMain /\ [][NextMain]_vars

\* ---------------------------------------------------------------- Config
\* Paths and addresses other than the defaults.
TmpDir == <<"/", "t", "m", "p">>
UsbPort == <<"/", "d", "e", "v", "/", "t", "t", "y", "U", "S", "B", "0">>
OtherAddr == <<"0", "x", "1", "E">>

\* The paths that may exist when check_config looks.
Paths == {NewConfig.LogDir, NewConfig.GPS_port, TmpDir, UsbPort}

\* The values of args.LogDir, args.AccelAddr and args.GPSPort: unset, empty,
\* or a string; the log directory with no, one or two trailing slashes, or
\* nothing but a slash.
LogDirArgs ==
    {None, <<>>, TmpDir, TmpDir \o <<"/">>, TmpDir \o <<"/", "/">>, <<"/">>}
AccelAddrArgs == {None, OtherAddr}
GPSPortArgs == {None, UsbPort}

\* What load can be given: arg.args is the tuple of parse_known_args, a
\* Namespace, or anything else.
LoadArgs ==
    {[kind |-> k, LogDir |-> d, AccelAddr |-> a, GPSPort |-> g] :
        k \in {"tuple", "Namespace"}, d \in LogDirArgs, a \in AccelAddrArgs,
        g \in GPSPortArgs}
      \cup {[kind |-> "other", LogDir |-> None, AccelAddr |-> None,
             GPSPort |-> None]}

\* load raises RuntimeError before it assigns anything.
LoadRaises(arg) == arg.kind \notin {"tuple", "Namespace"}

\* load that stores args.LogDir as it is given.
Load_unstripped(self, arg) ==
    LET s1 == IF Truthy(arg.LogDir)
              THEN [self EXCEPT !.LogDir = arg.LogDir] ELSE self
        s2 == IF Truthy(arg.AccelAddr)
              THEN [s1 EXCEPT !.accel_addr = arg.AccelAddr] ELSE s1
    IN  IF Truthy(arg.GPSPort)
        THEN [s2 EXCEPT !.GPS_port = arg.GPSPort] ELSE s2

\* The three assignments of load, each under its if.
Load(self, arg) ==
    LET s1 == IF Truthy(arg.LogDir)
              THEN [self EXCEPT !.LogDir = RStrip(arg.LogDir)] ELSE self
        s2 == IF Truthy(arg.AccelAddr)
              THEN [s1 EXCEPT !.accel_addr = arg.AccelAddr] ELSE s1
    IN  IF Truthy(arg.GPSPort)
        THEN [s2 EXCEPT !.GPS_port = arg.GPSPort] ELSE s2

\* check_config that looks at the GPS port before the log directory.
CheckConfig_port_first(self, files) ==
    IF self.GPS_port \notin files THEN "OSError: GPS_port"
    ELSE IF self.LogDir \notin files THEN "OSError: LogDir"
    ELSE "None"

\* What check_config raises: path.exists of the log directory first, then
\* of the GPS port.
CheckConfig(self, files) ==
    IF self.LogDir \notin files THEN "OSError: LogDir"
    ELSE IF self.GPS_port \notin files THEN "OSError: GPS_port"
    ELSE "None"

Config_load ==
    /\ \E arg \in LoadArgs :
          /\ cfg_arg' = arg
          /\ IF LoadRaises(arg)
             THEN cfg_raised' = "RuntimeError" /\ config' = config
             ELSE cfg_raised' = "None" /\ config' = Load(config, arg)
    /\ cfg_op' = "load"
    /\ UNCHANGED <<fs, accVars, updVars, mainVars>>

Config_check_config ==
    /\ cfg_raised' = CheckConfig(config, fs)
    /\ cfg_op' = "check_config"
    /\ UNCHANGED <<config, cfg_arg, fs, accVars, updVars, mainVars>>

NextConfig ==
    \/ Config_load
    \/ Config_check_config

\* config = Config() on any file system.
InitConfig ==
    /\ accelerometer = NewAccelerometer
    /\ last_op = "new"
    /\ sensor_reads = <<>>
    /\ printed = <<>>
    /\ np_warnings = {}
    /\ raised = "None"
    /\ UpdInit
    /\ MainStart(FALSE)
    /\ \E files \in SUBSET Paths : CfgStart(files)

SpecConfig == InitConfig /\ [][NextConfig]_vars

\* ------------------------------------------------------------------ claims

\* C1: an Update whose accelerometer vector is (0, 0, 0) fails with a
\* DegenerateInput error signalled to its caller instead of handing over
\* angles.  (The code raises nothing: the 0 / 0 gives nan and Update returns
\* normally with pitch, roll and norm_heading nan.)
C1_DegenerateInputSignalled ==
    (Updated /\ accelerometer.xyz_acc = ZeroVec)
        => raised = "DegenerateInput"

\* C2: an Update on a zero accelerometer vector leaves pitch, roll,
\* norm_heading and heading as the last successful computation left them.
C2_ZeroSampleKeepsAttitude ==
    [][(/\ Updated
        /\ accelerometer.xyz_acc # ZeroVec
        /\ ~IsNaN(accelerometer.roll)
        /\ last_op' = "get_accelerometer_orientation"
        /\ accelerometer'.xyz_acc = ZeroVec)
       => /\ accelerometer'.pitch = accelerometer.pitch
          /\ accelerometer'.roll = accelerometer.roll
          /\ accelerometer'.norm_heading = accelerometer.norm_heading
          /\ accelerometer'.heading = accelerometer.heading]_vars

\* C3: when the normalized x component is +1 or -1 the computation sets
\* roll = 0, flags the result with a gimbal_lock warning and still yields a
\* heading in [0, 2 pi).
C3_GimbalLockFallback ==
    (Updated /\ NormX \in {Scale, -Scale})
        => /\ accelerometer.roll = 0
           /\ "gimbal_lock" \in np_warnings
           /\ InTwoPi(accelerometer.norm_heading)

\* C4: in every reachable state the compensated heading and the raw heading
\* both lie in [0, 2 pi) and neither is undefined.
C4_HeadingsInRange ==
    /\ InTwoPi(accelerometer.norm_heading)
    /\ InTwoPi(accelerometer.heading)

\* C5: for every nonzero accelerometer vector the computed pitch and roll
\* both lie in [-pi/2, pi/2] and neither is undefined.
C5_TiltAnglesInRange ==
    (Updated /\ accelerometer.xyz_acc # ZeroVec)
        => /\ InQuarter(accelerometer.pitch)
           /\ InQuarter(accelerometer.roll)

\* Any object state at all: every computed field holds v.
Scrambled(self, v) ==
    [self EXCEPT !.pitch = v, !.roll = v, !.heading = v,
                 !.norm_heading = v, !.norm = v]

\* C6: the angles an Update stores depend only on the two vectors it read.
\* The stored angles, which the Update computed from whatever state came
\* before it, are the angles a second Update on the same vectors computes
\* from the present state, from a newly constructed object and from an
\* object whose computed fields hold arbitrary values.
C6_SameInputsSameOutputs ==
    Updated =>
        LET acc == accelerometer.xyz_acc
            mag == accelerometer.xyz_mag
            out == Attitude(accelerometer)
        IN  /\ Attitude(Update(accelerometer, acc, mag)) = out
            /\ Attitude(Update(NewAccelerometer, acc, mag)) = out
            /\ \A v \in {NaN, HalfPi, -HalfPi, Scale} :
                   Attitude(Update(Scrambled(accelerometer, v), acc, mag)) = out

\* A second Update (not the one of the constructor) computed a tilted,
\* defined attitude.
C6_Witness ==
    /\ last_op = "get_accelerometer_orientation"
    /\ ~IsNaN(accelerometer.norm_heading)
    /\ accelerometer.pitch # 0
    /\ accelerometer.roll # 0

C8_LevelHeadingIsRawHeading ==
    (/\ Updated
     /\ accelerometer.xyz_acc[1] = 0
     /\ accelerometer.xyz_acc[2] = 0
     /\ accelerometer.xyz_acc[3] # 0)
        => /\ accelerometer.pitch = 0
           /\ accelerometer.roll = 0
           /\ accelerometer.norm_heading = accelerometer.heading
           /\ accelerometer.heading =
                  Mod2Pi(Arctan2(accelerometer.xyz_mag[2], accelerometer.xyz_mag[1]))
           /\ (/\ accelerometer.xyz_acc = <<0, 0, Scale>>
               /\ accelerometer.xyz_mag = <<Scale, 0, 0>>)
                  => accelerometer.norm_heading = 0
           /\ (/\ accelerometer.xyz_acc = <<0, 0, -Scale>>
               /\ accelerometer.xyz_mag = <<-Scale, 0, 0>>)
                  => accelerometer.norm_heading = Pi

\* The inverted device of the second scenario, heading pi.
C8_Witness ==
    /\ Updated
    /\ accelerometer.xyz_acc = <<0, 0, -Scale>>
    /\ accelerometer.xyz_mag = <<-Scale, 0, 0>>
    /\ accelerometer.norm_heading = Pi

\* C9: with the accelerometer vector along the positive y axis (ax = 0,
\* ay > 0, az = 0) pitch = 0 and roll = -pi/2, and nothing is signalled: no
\* warning, no exception.
C9_RollAtClampBoundary ==
    (/\ Updated
     /\ accelerometer.xyz_acc[1] = 0
     /\ accelerometer.xyz_acc[2] > 0
     /\ accelerometer.xyz_acc[3] = 0)
        => /\ accelerometer.pitch = 0
           /\ accelerometer.roll = -HalfPi
           /\ np_warnings = {}
           /\ raised = "None"

\* The third scenario: accel (0,1,0), mag (0,1,0).
C9_Witness ==
    /\ Updated
    /\ accelerometer.xyz_acc = <<0, Scale, 0>>
    /\ accelerometer.xyz_mag = <<0, Scale, 0>>
    /\ accelerometer.roll = -HalfPi

\* C10, as stated: producing the report, by GetCalcReport or by
\* show_orientation_data, reads no sensor and leaves every field of the
\* object as it was.
C10_ReportHasNoSideEffects ==
    [][last_op' \in {"GetCalcReport", "show_orientation_data"}
           => /\ accelerometer' = accelerometer
              /\ sensor_reads' = <<>>]_vars

\* C10, amended: show_orientation_data reads no sensor and leaves every field
\* as it was; GetCalcReport first runs one Update (one accelerometer read, one
\* magnetometer read, the recomputation) and prints the angles that Update
\* stored.
C10_ShowHasNoSideEffects ==
    [][/\ last_op' = "show_orientation_data"
           => /\ accelerometer' = accelerometer
              /\ sensor_reads' = <<>>
              /\ printed' = OrientationData(accelerometer)
       /\ last_op' = "GetCalcReport"
           => /\ sensor_reads' = <<"accelerometer", "magnetometer">>
              /\ accelerometer' = Update(accelerometer, accelerometer'.xyz_acc,
                                         accelerometer'.xyz_mag)
              /\ printed' = CalcReport(accelerometer')]_vars

\* show_orientation_data has printed the angles of a tilted sample.
C10_Witness ==
    /\ last_op = "show_orientation_data"
    /\ printed = OrientationData(accelerometer)
    /\ accelerometer.pitch \notin {0, NaN}
    /\ sensor_reads = <<>>

\* C11: every Update runs its pipeline strictly forward and once: it reads
\* the accelerometer once, then the magnetometer once, then computes the raw
\* heading, then pitch, roll and the compensated heading; when it returns,
\* every angle is the one computed from the two vectors read in that same
\* Update, whatever the object held before.
C11_UpdateRunsForwardOnce ==
    /\ upd_calls = SubSeq(<<"getAccel", "getMagnet", "calcHeading",
                            "calcNormHeading">>, 1, Len(upd_calls))
    /\ Len(upd_reads) <= 2
    /\ \A i \in 1..Len(upd_reads) :
          upd_reads[i][1] = <<"accelerometer", "magnetometer">>[i]
    /\ Len(upd_reads) = IF Len(upd_calls) < 2 THEN Len(upd_calls) ELSE 2
    /\ upd_pc # 0 => Len(upd_calls) = upd_pc - 1
    /\ (upd_pc = 0 /\ upd_calls # <<>>) =>
          /\ Len(upd_calls) = 4
          /\ accelerometer.xyz_acc = upd_reads[1][2]
          /\ accelerometer.xyz_mag = upd_reads[2][2]
          /\ Attitude(accelerometer)
                = Attitude(calcNormHeading(calcHeading(
                      [NewAccelerometer EXCEPT !.xyz_acc = upd_reads[1][2],
                                               !.xyz_mag = upd_reads[2][2]])))

\* An Update has returned on a tilted reading with the field off the x axis.
C11_Witness ==
    /\ upd_pc = 0
    /\ Len(upd_calls) = 4
    /\ accelerometer.pitch # 0
    /\ accelerometer.heading # 0

\* C12 as stated: whenever a reader looks, an Update in progress included,
\* the tuple (pitch, roll, heading, norm_heading, norm) of the object is the
\* result of one completed computation.
C12_NoPartialUpdateVisible == Attitude(accelerometer) \in CompletedAttitudes

\* C12: what the readers of main read, after Update has returned, is the
\* result of the one computation on the vectors the object holds.
C12_ReadersSeeOneComputation ==
    seen # <<>> =>
        seen.attitude = Attitude(Update(NewAccelerometer, seen.acc, seen.mag))

\* A reader has read a tilted attitude.
C12_Witness ==
    /\ seen # <<>>
    /\ seen.attitude[1] # 0
    /\ seen.attitude[3] # 0

\* C13: the log gets exactly one line for each key-2 event whose
\* get_bosch_data returns a record, holding the heading, pitch, roll and norm
\* of the accelerometer, the rotary reading and the Bosch data; key 1, key 3
\* and a key 2 whose data is rejected append nothing.
C13_OneLinePerRecord ==
    [][/\ log' # log =>
            /\ key = 2
            /\ bosch_data \in BoschRecords
            /\ log' = Append(log,
                   [rotary |-> [value |-> rotary.value,
                                direction |-> rotary.direction],
                    accelerometer |-> [heading |-> accelerometer.norm_heading,
                                       pitch |-> accelerometer.pitch,
                                       roll |-> accelerometer.roll,
                                       norm |-> accelerometer.norm],
                    bosch |-> bosch_data])
       /\ pc' \in {"loop", "raised"} => Len(log') = records'
      ]_vars

\* A key 2 whose data was rejected has been handled after a line was
\* written for an earlier one.
C13_Witness ==
    /\ pc = "loop"
    /\ key = 2
    /\ bosch_data = Rejected
    /\ Len(log) >= 1
    /\ records = Len(log)

\* C14 as stated: waitfor returns with one of two outcomes, the output
\* lines when the command exited by itself within timeout seconds, None
\* after a SIGKILL when it had not; a command that exits within the timeout
\* is never killed and one still running after timeout seconds always is.
C14_WaitforOutcome ==
    pc = "off_relay" =>
        LET inTime == /\ proc.status = "exited"
                      /\ proc.exit_at <= UmountTimeout * SleepsPerSecond
        IN  \/ wf_result = "lines" /\ inTime /\ ~proc.signalled
            \/ wf_result = "None" /\ ~inTime /\ proc.signalled

\* C15: the relay is off after its construction; after any calls of on()
\* and off() its logical state is that of the last call, 1 for on and 0 for
\* off; the level of the GPIO pin is always the inverse of the logical
\* state.
C15_RelayFollowsLastCall ==
    /\ LED_value(relay)
          = IF relay_calls[Len(relay_calls)] = "on" THEN 1 ELSE 0
    /\ relay.pin = 1 - LED_value(relay)

\* on() has been called twice in a row.
C15_Witness ==
    /\ relay_calls = <<"on", "on">>
    /\ LED_value(relay) = 1
    /\ relay.pin = 0

\* C18 as stated: when bosch_usb_drive_off has returned the relay is off,
\* whatever it was before and whether the drive was mounted or not.
C18_RelayOffAfterDriveOff == pc = "off_returned" => LED_value(relay) = 0

\* C19: bosch_usb_drive_off switches the relay off only when the umount
\* process waitfor started has exited or has been killed, and leaves the
\* relay alone while waitfor runs.
C19_RelayOffAfterUmountEnds ==
    [][/\ pc \in {"off_check", "wf_poll", "wf_sleep"} =>
            relay' = relay /\ relay_calls' = relay_calls
       /\ (pc = "off_relay" /\ pc' # pc) =>
            /\ proc.status \in {"exited", "killed"}
            /\ LED_value(relay') = 0
      ]_vars

\* The relay has been switched off after umount was killed.
C19_Witness ==
    /\ pc = "off_returned"
    /\ key = 1
    /\ proc.status = "killed"
    /\ LED_value(relay) = 0

\* C20 as stated: bosch_usb_drive_on switches the relay on and returns True
\* exactly when the mount path exists as it returns, False when it does not.
C20_OnReportsMount ==
    pc = "on_returned" =>
        /\ LED_value(relay) = 1
        /\ on_ret.value = "True" <=> on_ret.exists
        /\ on_ret.value = "False" <=> ~on_ret.exists

C17_CheckConfigRaises ==
    [][cfg_op' = "check_config" =>
          /\ config' = config
          /\ config.LogDir \notin fs => cfg_raised' = "OSError: LogDir"
          /\ (config.LogDir \in fs /\ config.GPS_port \notin fs) =>
                cfg_raised' = "OSError: GPS_port"
          /\ cfg_raised' = "None"
                <=> (config.LogDir \in fs /\ config.GPS_port \in fs)
      ]_vars

\* check_config has raised for the log directory with both paths missing.
C17_Witness ==
    /\ cfg_op = "check_config"
    /\ cfg_raised = "OSError: LogDir"
    /\ config.LogDir \notin fs
    /\ config.GPS_port \notin fs
    /\ fs # {}

\* C21 as stated: in the key-2 branch get_bosch_data opens the memory file
\* only with the relay on and after bosch_usb_drive_on has found the mount
\* path; when bosch_usb_drive_on has not found it, no read is attempted.
C21_ReadOnlyWhenDriveFound ==
    [][(pc = "on_returned" /\ pc' # pc) =>
          /\ key = 2
          /\ LED_value(relay) = 1
          /\ on_ret.exists
          /\ on_ret.value # "False"
      ]_vars

=============================================================================
